---------------------------- MODULE Spec2Model ----------------------------
(***************************************************************************)
(* gh-difftool: main() and the diff() scheduling loop (src/src/main.rs),   *)
(* the ChangeSet ordering operations (src/src/change_set.rs) and           *)
(* Difftool::launch (src/src/git_config.rs).                               *)
(*                                                                         *)
(* A change is identified inside diff() by its 1-based position in         *)
(* change_set.changes; position p is the ChangeSet index p-1 of the code.  *)
(***************************************************************************)
EXTENDS Integers, Sequences, FiniteSets, TLC

(* ------------------------------ bounds -------------------------------- *)

\* Longest change list the provider returns in the model.
MaxChanges == 4

\* Longest list of trailing FILES arguments on the command line.
MaxFiles == 2
\* Longest text (in tokens) of a file's content.
MaxText == 2
\* Longest text (in tokens) of a patch, the submodule prefix not counted.
MaxPatch == 3
\* Most changes of a change list that is staged on its own.
MaxStaged == 2
\* Most arguments of the command template of the diff tool.
MaxArgs == 3

\* File names the provider may report.
Filenames == {"a", "b", "c"}

\* Names the user may type: the provider's names and one that is in no PR.
CliNames == Filenames \cup {"x"}

\* The absent Option<String> of cli.skip_to.
None == "None"

\* Exit statuses of a viewer process: zero and one non-zero value.
ExitCodes == {0, 1}

(* ------------------------------ state --------------------------------- *)

VARIABLES
    pc,           \* position of main()/diff()
    cli,          \* the parsed command line (fields are reset once moved out)
    change_set,   \* change_set.changes as a sequence of file names
    stdout,       \* lines printed by the name-only loop
    difftool,     \* TRUE once git_config::Difftool::new has resolved a tool
    temp_dir,     \* "none" | "exists" | "removed": Diff.temp_dir
    staged,       \* the staged files that exist on disk (paths)
    stream,       \* FuturesOrdered: position -> "pending" | "ok" | "err"
    yielded,      \* positions stream.next() has already yielded
    diffs,        \* the VecDeque of staged pairs (positions)
    done,         \* the `done` flag of diff()
    diff_future,  \* the pinned future: [arg, phase]
    running,      \* viewer processes alive (positions)
    last_exit,    \* [item, code]: the viewer process that exited last
    enqueued,     \* history: positions pushed on diffs, in order
    launched,     \* history: positions whose launch was started, in order
    outcome,      \* history: position -> how its launch ended
    reported,     \* history: positions whose launch Err was printed
    diff_ret,     \* result of diff(): "none" | "ok" | "err"
    main_ret,     \* result of main(): [ret, cause]
    op,           \* the ChangeSet operation applied last, with its input
    rev,          \* one call of Change::reverse_apply: its input and outcome
    stage,        \* the staging of a change list: inputs, paths, directories
    cmd           \* one call of Difftool::launch: its input and the command

vars == <<pc, cli, change_set, stdout, difftool, temp_dir, stream, yielded,
          diffs, done, diff_future, running, last_exit, enqueued, launched,
          outcome, reported, diff_ret, main_ret, staged, op, rev, stage,
          cmd>>

\* Used only by the specifications of the pure operations.
pure_vars == <<op, rev, stage, cmd>>

history_vars == <<enqueued, launched, outcome, reported>>

pipeline_vars == <<stream, yielded, diffs, done, diff_future, running,
                   last_exit, enqueued, launched, outcome, reported>>

(* ------------------------- sequence helpers --------------------------- *)

SeqsUpTo(S, n) == UNION {[1..k -> S] : k \in 0..n}

\* slice::contains
Contains(s, x) == \E k \in 1..Len(s) : s[k] = x

(* --------------------- ChangeSet (change_set.rs) ---------------------- *)

\* Faulty variant: the changes named in files are the ones dropped.
filter_files_inverted(changes, files) ==
    SelectSeq(changes, LAMBDA f : ~Contains(files, f))

\* ChangeSet::filter_files: Vec::retain keeps, in order, the changes whose
\* filename is contained in files.
filter_files(changes, files) ==
    SelectSeq(changes, LAMBDA f : Contains(files, f))

\* Faulty variant: the last change named file is found (rposition).
file_position_last(changes, file) ==
    IF Contains(changes, file)
    THEN (CHOOSE k \in 1..Len(changes) :
             changes[k] = file
             /\ \A j \in (k + 1)..Len(changes) : changes[j] # file) - 1
    ELSE -1

\* ChangeSet::file_position: 0-based position of the first change named
\* file, or -1 for the Err("No such path ...").
file_position(changes, file) ==
    IF Contains(changes, file)
    THEN (CHOOSE k \in 1..Len(changes) :
             changes[k] = file /\ \A j \in 1..(k - 1) : changes[j] # file) - 1
    ELSE -1

\* change_set.rs:186  the message of the error of file_position.
NoSuchPath(file) == "No such path '" \o file \o "' in the diff."

\* Faulty variant: the element at position is dropped too.
split_off_after(changes, position) ==
    SubSeq(changes, position + 2, Len(changes))

\* Vec::split_off(position): the elements from position (0-based) on.
split_off(changes, position) ==
    SubSeq(changes, position + 1, Len(changes))

\* Faulty variant: rotation to the right.
rotate_right(changes, mid) ==
    SubSeq(changes, Len(changes) - mid + 1, Len(changes))
        \o SubSeq(changes, 1, Len(changes) - mid)

\* slice::rotate_left(mid): the first mid elements move to the end, so the
\* element at 0-based index mid becomes the first.
rotate_left(changes, mid) ==
    SubSeq(changes, mid + 1, Len(changes)) \o SubSeq(changes, 1, mid)

\* Faulty variant: a file that is not found is taken to be at the front.
ordering_position_or_front(changes, file) ==
    IF Contains(changes, file) THEN file_position(changes, file) ELSE 0

\* change_set.rs:151, 166  `self.file_position(file)?` of rotate_to and
\* skip_to.
ordering_position(changes, file) == file_position(changes, file)

\* ChangeSet::rotate_to: [ok, changes, error]; on error the changes are
\* untouched.
rotate_to(changes, file) ==
    LET position == ordering_position(changes, file)
    IN  IF position < 0
        THEN [ok |-> FALSE, changes |-> changes, error |-> NoSuchPath(file)]
        ELSE [ok |-> TRUE, changes |-> rotate_left(changes, position),
              error |-> ""]

\* ChangeSet::skip_to: [ok, changes, error]; on error the changes are
\* untouched.
skip_to(changes, file) ==
    LET position == ordering_position(changes, file)
    IN  IF position < 0
        THEN [ok |-> FALSE, changes |-> changes, error |-> NoSuchPath(file)]
        ELSE [ok |-> TRUE, changes |-> split_off(changes, position),
              error |-> ""]

(* ------------------------------ main() -------------------------------- *)

Running == [ret |-> "running", cause |-> "none"]
Ok == [ret |-> "ok", cause |-> "none"]
Err(cause) == [ret |-> "err", cause |-> cause]

NoFuture == [arg |-> 0, phase |-> "none"]

\* No ChangeSet operation has been applied / reverse_apply is not called.
NoOp == [name |-> "none", files |-> <<>>, file |-> None, before |-> <<>>,
         ok |-> TRUE, error |-> "", again |-> FALSE]
NoFile == [exists |-> FALSE, text |-> <<>>]
NoRev == [called |-> FALSE, status |-> "none",
          patch |-> [present |-> FALSE, text |-> <<>>], sha |-> <<>>,
          fetched |-> <<>>, src |-> NoFile, dest |-> NoFile,
          branch |-> "none", patch_run |-> FALSE, stdin |-> <<>>,
          how |-> "none", stderr |-> "", result |-> Running]
NoStage == [changes |-> <<>>, pairs |-> <<>>, files |-> {}, dirs |-> {}]
NoCmd == [command_args |-> <<>>, original |-> "", new |-> "",
          called |-> FALSE, program |-> "", args |-> <<>>,
          env_LOCAL |-> "", env_REMOTE |-> "", how |-> "none",
          result |-> Running]

Init ==
    /\ pc = "start"
    /\ cli = [pr |-> "absent", files |-> <<>>, skip_to |-> None,
              name_only |-> FALSE, rotate_to |-> None]
    /\ change_set = <<>>
    /\ stdout = <<>>
    /\ difftool = FALSE
    /\ temp_dir = "none"
    /\ stream = <<>>
    /\ yielded = {}
    /\ diffs = <<>>
    /\ done = TRUE
    /\ diff_future = NoFuture
    /\ running = {}
    /\ last_exit = [item |-> 0, code |-> 0]
    /\ enqueued = <<>>
    /\ launched = <<>>
    /\ outcome = <<>>
    /\ reported = {}
    /\ diff_ret = "none"
    /\ main_ret = Running
    /\ staged = {}
    /\ op = NoOp
    /\ rev = NoRev
    /\ stage = NoStage
    /\ cmd = NoCmd

\* main.rs:24-58  the arguments Cli::parse rejects (clap reports the first
\* one it meets and exits): a PR that parse_pr cannot parse, and an option
\* the struct has no field for.  Cli has tool, repo, pr, name_only, skip_to
\* and files: `--rotate-to`, which tests/rotate_to.rs passes, is none of
\* them, so cli.rotate_to only records what was typed.
parse_errors(pr, rotate) ==
    (IF pr = "invalid" THEN {"pr"} ELSE {})
        \cup (IF rotate # None THEN {"usage"} ELSE {})

\* Faulty variant: only the first filename is printed.
name_only_first_line(changes) == SubSeq(changes, 1, 1)

\* main.rs:86-89  one println! of the filename per change, in the order of
\* change_set.changes.
name_only_lines(changes) == [k \in 1..Len(changes) |-> changes[k]]

\* main.rs:62  Cli::parse(). A PR argument parse_pr rejects ends the run.
MainParse ==
    /\ pc = "start"
    /\ \E pr \in {"absent", "valid", "invalid"},
          files \in SeqsUpTo(CliNames, MaxFiles),
          skip \in CliNames \cup {None},
          name_only \in BOOLEAN,
          rotate \in CliNames \cup {None} :
          /\ cli' = [pr |-> pr, files |-> files, skip_to |-> skip,
                     name_only |-> name_only, rotate_to |-> rotate]
          /\ IF parse_errors(pr, rotate) # {}
             THEN /\ pc' = "exit"
                  /\ \E cause \in parse_errors(pr, rotate) :
                        main_ret' = Err(cause)
             ELSE pc' = "main_pr" /\ main_ret' = main_ret
    /\ UNCHANGED <<change_set, stdout, difftool, temp_dir, diff_ret>>
    /\ UNCHANGED pipeline_vars
    /\ UNCHANGED <<staged, op, rev, stage, cmd>>

\* main.rs:65-72  the PR given on the command line, else the one of the
\* current branch (PullRequest::new_from_cwd may fail).
MainPr ==
    /\ pc = "main_pr"
    /\ \E ok \in BOOLEAN :
          /\ (cli.pr = "valid") => ok
          /\ IF ok
             THEN pc' = "main_change_set" /\ main_ret' = main_ret
             ELSE pc' = "exit" /\ main_ret' = Err("pr")
    /\ cli' = [cli EXCEPT !.pr = "absent"]
    /\ UNCHANGED <<change_set, stdout, difftool, temp_dir, diff_ret>>
    /\ UNCHANGED pipeline_vars
    /\ UNCHANGED <<staged, op, rev, stage, cmd>>

\* main.rs:74  gh.change_set(&pr)?
MainChangeSet ==
    /\ pc = "main_change_set"
    /\ \/ \E cs \in SeqsUpTo(Filenames, MaxChanges) :
             /\ change_set' = cs
             /\ pc' = "main_filter"
             /\ main_ret' = main_ret
       \/ /\ change_set' = change_set
          /\ pc' = "exit"
          /\ main_ret' = Err("provider")
    /\ UNCHANGED <<cli, stdout, difftool, temp_dir, diff_ret>>
    /\ UNCHANGED pipeline_vars
    /\ UNCHANGED <<staged, op, rev, stage, cmd>>

\* main.rs:76-79
MainFilter ==
    /\ pc = "main_filter"
    /\ change_set' = IF cli.files # <<>>
                     THEN filter_files(change_set, cli.files)
                     ELSE change_set
    /\ cli' = [cli EXCEPT !.files = <<>>]
    /\ pc' = "main_skip_to"
    /\ UNCHANGED <<stdout, difftool, temp_dir, diff_ret, main_ret>>
    /\ UNCHANGED pipeline_vars
    /\ UNCHANGED <<staged, op, rev, stage, cmd>>

\* main.rs:81-83
MainSkipTo ==
    /\ pc = "main_skip_to"
    /\ IF cli.skip_to = None
       THEN /\ change_set' = change_set
            /\ pc' = "main_name_only"
            /\ main_ret' = main_ret
       ELSE LET r == skip_to(change_set, cli.skip_to)
            IN  /\ change_set' = r.changes
                /\ IF r.ok
                   THEN pc' = "main_name_only" /\ main_ret' = main_ret
                   ELSE pc' = "exit" /\ main_ret' = Err(r.error)
    /\ cli' = [cli EXCEPT !.skip_to = None]
    /\ UNCHANGED <<stdout, difftool, temp_dir, diff_ret>>
    /\ UNCHANGED pipeline_vars
    /\ UNCHANGED <<staged, op, rev, stage, cmd>>

\* main.rs:85-91
MainNameOnly ==
    /\ pc = "main_name_only"
    /\ IF cli.name_only
       THEN /\ stdout' = stdout \o name_only_lines(change_set)
            /\ pc' = "exit"
            /\ main_ret' = Ok
       ELSE /\ stdout' = stdout
            /\ pc' = "main_difftool"
            /\ main_ret' = main_ret
    /\ UNCHANGED <<cli, change_set, difftool, temp_dir, diff_ret>>
    /\ UNCHANGED pipeline_vars
    /\ UNCHANGED <<staged, op, rev, stage, cmd>>

\* main.rs:94  git_config::Difftool::new(current_dir()?, tool)?
MainDifftool ==
    /\ pc = "main_difftool"
    /\ \E ok \in BOOLEAN :
          /\ difftool' = ok
          /\ IF ok
             THEN pc' = "diff_start" /\ main_ret' = main_ret
             ELSE pc' = "exit" /\ main_ret' = Err("difftool")
    /\ UNCHANGED <<cli, change_set, stdout, temp_dir, diff_ret>>
    /\ UNCHANGED pipeline_vars
    /\ UNCHANGED <<staged, op, rev, stage, cmd>>

(* ------------------- Difftool::launch (git_config.rs) ----------------- *)

\* Faulty variant: the exit status of the viewer decides the result.
launch_result_by_status(spawned, waited, status) ==
    IF ~spawned THEN "err"
    ELSE IF ~waited THEN "err"
    ELSE IF status # 0 THEN "err"
    ELSE "ok"

\* Difftool::launch, git_config.rs:87-92: `command.spawn()?`, then
\* `child.wait().await?`, then Ok(()) whatever the exit status was.
launch_result(spawned, waited, status) ==
    IF ~spawned THEN "err"
    ELSE IF ~waited THEN "err"
    ELSE "ok"

(* ------------------------------ diff() -------------------------------- *)

\* Faulty variant: results come out in completion order (FuturesUnordered).
stream_next_unordered ==
    {p \in DOMAIN stream : p \notin yielded /\ stream[p] # "pending"}

\* FuturesOrdered::next, main.rs:145: the results come out in push_back
\* order, so only the lowest position not yet yielded can be yielded, and
\* only once its future has completed.
stream_next ==
    {p \in DOMAIN stream :
        /\ p \notin yielded
        /\ stream[p] # "pending"
        /\ \A q \in 1..(p - 1) : q \in yielded}

\* stream.next() is None: every pushed future has been yielded.
stream_exhausted == yielded = DOMAIN stream

\* main.rs:151  the precondition `if !done` of the viewer branch.
viewer_branch_enabled == ~done

\* Faulty variant: launch() spawns the viewer and does not wait for it.
poll_diff_future_no_wait ==
    IF diff_future.arg = 0
    THEN {[how |-> "nothing", result |-> "ok"]}
    ELSE IF diff_future.phase = "created"
    THEN {[how |-> "spawn_failed", result |-> "err"]}
    ELSE {[how |-> "exited", result |-> "ok"]}

\* main.rs:101-107 with git_config.rs:87-88: the ways a poll of
\* diff_future can be Ready now, as [how, result]. launch_difftool(None) is
\* Ready(Ok) at once; a future not yet polled is Ready only if the spawn
\* fails; a spawned one is Pending while its child runs, and then Ready
\* with the outcome of child.wait() (a failing wait is taken to happen
\* only once the child is gone).
poll_diff_future ==
    IF diff_future.arg = 0
    THEN {[how |-> "nothing", result |-> "ok"]}
    ELSE IF diff_future.phase = "created"
    THEN {[how |-> "spawn_failed",
           result |-> launch_result(FALSE, FALSE, 0)]}
    ELSE IF diff_future.arg \in running
    THEN {}
    ELSE {[how |-> IF w THEN "exited" ELSE "wait_failed",
           result |-> launch_result(TRUE, w, last_exit.code)] :
             w \in BOOLEAN}

\* Faulty variant: an Err of the launch is propagated with `?`.
after_launch_result_propagate(result) ==
    IF result = "err" THEN "return" ELSE "continue"

\* main.rs:155-157: an Err of the launch is printed, nothing else.
after_launch_result(result) == "continue"

\* Faulty variant: the pair behind the head is thrown away with it.
pop_front_drop_next(q) ==
    [item |-> Head(q), rest |-> IF Len(q) > 1 THEN Tail(Tail(q)) ELSE <<>>]

\* Faulty variant: the newest staged pair is taken (pop_back).
pop_back(q) == [item |-> q[Len(q)], rest |-> SubSeq(q, 1, Len(q) - 1)]

\* VecDeque::pop_front, main.rs:159.
pop_front(q) == [item |-> Head(q), rest |-> Tail(q)]

\* main.rs:146  `new_diff?`: an Err of a preparation leaves diff().
after_new_diff(result) == IF result = "err" THEN "return" ELSE "continue"

\* Faulty variant: `done` is left as it was after a push.
done_left_after_push == done

\* Faulty variant: the stream is not polled while a spawned viewer is awaited.
stream_branch_blocked_by_viewer == diff_future.phase # "spawned"

\* main.rs:145  the stream branch of select! has no `if` precondition: it
\* is polled on every pass of the loop, whatever diff_future is doing.
stream_branch_enabled == TRUE

\* main.rs:149  `done = false` after a push.
done_after_push == FALSE

\* diff.rs:46  the temp root Diff::new creates: one directory per run.
temp_dir_path == "gh-difftool"

\* diff.rs:61-62, 74-79: both staged files of a change are joined to the
\* temp root. A staged path is [root, kind, change].
new_file_path(p) == [root |-> temp_dir_path, kind |-> "new", change |-> p]
original_file_path(p) ==
    [root |-> temp_dir_path, kind |-> "original", change |-> p]

\* diff.rs:50-58  the files a preparation has written when it completes
\* with r: both on Ok; on Err nothing (the fetch failed) or only the new
\* file (reverse_apply failed).
staged_by(p, r) ==
    IF r = "ok" THEN {{new_file_path(p), original_file_path(p)}}
    ELSE {{}, {new_file_path(p)}}

\* Faulty variant: the temp root is kept when diff() returns.
temp_dir_kept == "exists"

\* diff.rs:20, main.rs:171  `diff` goes out of scope when diff() returns,
\* on every path: TempDir's Drop removes the directory.
temp_dir_dropped == "removed"

\* The staged files left once the temp root is in state t.
files_after_drop(t) == IF t = "removed" THEN {} ELSE staged

\* main.rs:128-141  Diff::new creates the temp root; the for loop consumes
\* change_set.changes, moving every change into its preparation future;
\* done = true; diff_future = launch_difftool(None).
DiffStart ==
    /\ pc = "diff_start"
    /\ \/ /\ temp_dir' = "exists"
          /\ stream' = [p \in 1..Len(change_set) |-> "pending"]
          /\ change_set' = <<>>
          /\ yielded' = {}
          /\ diffs' = <<>>
          /\ done' = TRUE
          /\ diff_future' = [arg |-> 0, phase |-> "created"]
          /\ pc' = "diff_loop"
          /\ diff_ret' = diff_ret
       \/ /\ pc' = "diff_returned"
          /\ diff_ret' = "err_tempdir"
          /\ UNCHANGED <<temp_dir, stream, yielded, diffs, done, diff_future,
                         change_set>>
    /\ UNCHANGED <<cli, stdout, difftool, running, last_exit, main_ret>>
    /\ UNCHANGED history_vars
    /\ UNCHANGED <<staged, op, rev, stage, cmd>>

\* diff.rs:50-58  the preparation of position p completes (fetch, reverse
\* apply, staging), with Ok or with Err. Futures advance only while the
\* loop polls the stream.
PrepComplete(p) ==
    /\ pc = "diff_loop"
    /\ p \in DOMAIN stream
    /\ stream[p] = "pending"
    /\ \E r \in {"ok", "err"} :
          /\ stream' = [stream EXCEPT ![p] = r]
          /\ \E written \in staged_by(p, r) : staged' = staged \cup written
    /\ UNCHANGED <<pc, cli, change_set, stdout, difftool, temp_dir, yielded,
                   diffs, done, diff_future, running, last_exit, diff_ret,
                   main_ret>>
    /\ UNCHANGED history_vars
    /\ UNCHANGED pure_vars

\* main.rs:145-150  the stream branch of select!.
StreamBranch ==
    /\ pc = "diff_loop"
    /\ stream_branch_enabled
    /\ \E p \in stream_next :
          /\ yielded' = yielded \cup {p}
          /\ IF after_new_diff(stream[p]) = "return"
             THEN /\ pc' = "diff_returned"
                  /\ diff_ret' = "err_prep"
                  /\ temp_dir' = temp_dir_dropped
                  /\ staged' = files_after_drop(temp_dir_dropped)
                  /\ UNCHANGED <<diffs, done, enqueued>>
             ELSE /\ diffs' = IF stream[p] = "ok" THEN Append(diffs, p)
                              ELSE diffs
                  /\ enqueued' = IF stream[p] = "ok" THEN Append(enqueued, p)
                                 ELSE enqueued
                  /\ done' = done_after_push
                  /\ UNCHANGED <<pc, diff_ret, temp_dir, staged>>
    /\ UNCHANGED <<cli, change_set, stdout, difftool, stream, diff_future,
                   running, last_exit, launched, outcome, reported, main_ret>>
    /\ UNCHANGED pure_vars

\* git_config.rs:87  first poll of launch(Some(p)): the spawn succeeds, the
\* viewer process runs and the future is Pending.
PollSpawn ==
    /\ pc = "diff_loop"
    /\ viewer_branch_enabled
    /\ diff_future.arg # 0
    /\ diff_future.phase = "created"
    /\ running' = running \cup {diff_future.arg}
    /\ diff_future' = [diff_future EXCEPT !.phase = "spawned"]
    /\ launched' = Append(launched, diff_future.arg)
    /\ UNCHANGED <<pc, cli, change_set, stdout, difftool, temp_dir, stream,
                   yielded, diffs, done, last_exit, enqueued, outcome,
                   reported, diff_ret, main_ret>>
    /\ UNCHANGED <<staged, op, rev, stage, cmd>>

\* The viewer process of position p exits with some status (the user
\* closes the tool). It may outlive diff() and main().
ViewerExit(p) ==
    /\ p \in running
    /\ running' = running \ {p}
    /\ \E status \in ExitCodes : last_exit' = [item |-> p, code |-> status]
    /\ UNCHANGED <<pc, cli, change_set, stdout, difftool, temp_dir, stream,
                   yielded, diffs, done, diff_future, diff_ret, main_ret>>
    /\ UNCHANGED history_vars
    /\ UNCHANGED <<staged, op, rev, stage, cmd>>

\* main.rs:151-165  the viewer branch of select!.
ViewerBranch ==
    /\ pc = "diff_loop"
    /\ viewer_branch_enabled
    /\ \E r \in poll_diff_future :
          /\ launched' = IF r.how = "spawn_failed"
                         THEN Append(launched, diff_future.arg)
                         ELSE launched
          /\ outcome' = IF diff_future.arg = 0 THEN outcome
                        ELSE Append(outcome, r.how)
          /\ reported' = IF r.result = "err"
                         THEN reported \cup {diff_future.arg}
                         ELSE reported
          /\ IF after_launch_result(r.result) = "return"
             THEN /\ pc' = "diff_returned"
                  /\ diff_ret' = "err_launch"
                  /\ temp_dir' = temp_dir_dropped
                  /\ staged' = files_after_drop(temp_dir_dropped)
                  /\ UNCHANGED <<diffs, diff_future, done>>
             ELSE /\ IF diffs # <<>>
                     THEN /\ diff_future' = [arg |-> pop_front(diffs).item,
                                             phase |-> "created"]
                          /\ diffs' = pop_front(diffs).rest
                          /\ done' = done
                     ELSE /\ diff_future' = [arg |-> 0, phase |-> "created"]
                          /\ diffs' = diffs
                          /\ done' = TRUE
                  /\ UNCHANGED <<pc, diff_ret, temp_dir, staged>>
    /\ UNCHANGED <<cli, change_set, stdout, difftool, stream, yielded,
                   running, last_exit, enqueued, main_ret>>
    /\ UNCHANGED pure_vars

\* main.rs:166-170  `else => break`: both branches are disabled; diff()
\* returns Ok(()) and the temp root is dropped.
Break ==
    /\ pc = "diff_loop"
    /\ stream_exhausted
    /\ ~viewer_branch_enabled
    /\ pc' = "diff_returned"
    /\ diff_ret' = "ok"
    /\ temp_dir' = temp_dir_dropped
    /\ staged' = files_after_drop(temp_dir_dropped)
    /\ UNCHANGED <<cli, change_set, stdout, difftool, main_ret>>
    /\ UNCHANGED pipeline_vars
    /\ UNCHANGED pure_vars

\* main.rs:95-96  `diff(difftool, change_set).await?; Ok(())`.
main_result(ret) == IF ret = "ok" THEN Ok ELSE Err(ret)

MainDiffReturn ==
    /\ pc = "diff_returned"
    /\ main_ret' = main_result(diff_ret)
    /\ pc' = "exit"
    /\ UNCHANGED <<cli, change_set, stdout, difftool, temp_dir, diff_ret>>
    /\ UNCHANGED pipeline_vars
    /\ UNCHANGED <<staged, op, rev, stage, cmd>>

\* The positions a change can have in change_set.changes.
Positions == 1..MaxChanges

Next ==
    \/ MainParse
    \/ MainPr
    \/ MainChangeSet
    \/ MainFilter
    \/ MainSkipTo
    \/ MainNameOnly
    \/ MainDifftool
    \/ DiffStart
    \/ \E p \in Positions : PrepComplete(p)
    \/ StreamBranch
    \/ PollSpawn
    \/ \E p \in Positions : ViewerExit(p)
    \/ ViewerBranch
    \/ Break
    \/ MainDiffReturn

Spec == Init /\ [][Next]_vars

\* The runtime keeps polling the loop, so a branch of select! that stays
\* ready is taken; every preparation completes and every viewer process
\* exits in the end.
(* --------------- the ChangeSet operations on their own ---------------- *)

\* Any change list of the provider, before any operation.
ChangeSetInit ==
    /\ pc = "ops"
    /\ change_set \in SeqsUpTo(Filenames, MaxChanges)
    /\ cli = [pr |-> "absent", files |-> <<>>, skip_to |-> None,
              name_only |-> FALSE, rotate_to |-> None]
    /\ stdout = <<>>
    /\ difftool = FALSE
    /\ temp_dir = "none"
    /\ stream = <<>>
    /\ yielded = {}
    /\ diffs = <<>>
    /\ done = TRUE
    /\ diff_future = NoFuture
    /\ running = {}
    /\ last_exit = [item |-> 0, code |-> 0]
    /\ enqueued = <<>>
    /\ launched = <<>>
    /\ outcome = <<>>
    /\ reported = {}
    /\ diff_ret = "none"
    /\ main_ret = Running
    /\ staged = {}
    /\ op = NoOp
    /\ rev = NoRev
    /\ stage = NoStage
    /\ cmd = NoCmd

main_vars == <<pc, cli, stdout, difftool, temp_dir, diff_ret, main_ret,
               staged, rev, stage, cmd>>

\* change_set.rs:133-138  filter_files(files) on the current change list.
ApplyFilterFiles ==
    /\ pc = "ops"
    /\ \E files \in SeqsUpTo(CliNames, MaxFiles) :
          /\ change_set' = filter_files(change_set, files)
          /\ op' = [name |-> "filter_files", files |-> files, file |-> None,
                    before |-> change_set, ok |-> TRUE, error |-> "",
                    again |-> FALSE]
    /\ UNCHANGED main_vars
    /\ UNCHANGED pipeline_vars

\* change_set.rs:150-154  rotate_to(file) on the current change list.
ApplyRotateTo ==
    /\ pc = "ops"
    /\ \E file \in CliNames :
          LET r == rotate_to(change_set, file)
          IN  /\ change_set' = r.changes
              /\ op' = [name |-> "rotate_to", files |-> <<>>, file |-> file,
                        before |-> change_set, ok |-> r.ok,
                        error |-> r.error, again |-> FALSE]
    /\ UNCHANGED main_vars
    /\ UNCHANGED pipeline_vars

\* change_set.rs:165-169  skip_to(file) on the current change list; again
\* tells that the operation before was a successful skip_to(file) too.
ApplySkipTo ==
    /\ pc = "ops"
    /\ \E file \in CliNames :
          LET r == skip_to(change_set, file)
          IN  /\ change_set' = r.changes
              /\ op' = [name |-> "skip_to", files |-> <<>>, file |-> file,
                        before |-> change_set, ok |-> r.ok,
                        error |-> r.error,
                        again |-> (op.name = "skip_to" /\ op.ok
                                     /\ op.file = file)]
    /\ UNCHANGED main_vars
    /\ UNCHANGED pipeline_vars

ChangeSetNext ==
    \/ ApplyFilterFiles
    \/ ApplyRotateTo
    \/ ApplySkipTo

ChangeSetSpec == ChangeSetInit /\ [][ChangeSetNext]_vars

(* --------------------- Change::reverse_apply on its own ----------------- *)

\* Texts are sequences of tokens: two characters and the line break.
NL == "NL"
Tokens == {"1", "2", NL}
Texts == SeqsUpTo(Tokens, MaxText)

\* change_set.rs:111  SUBMODULE_PATCH_PREFIX, "@@ -1 +1 @@\n-Subproject
\* commit ", as the hunk header, the line break and the start of the line.
SUBMODULE_PATCH_PREFIX == <<"@@ -1 +1 @@", NL, "-Subproject commit ">>

\* Content identifiers (Change.sha) over the two characters.
Shas == {<<"1">>, <<"2">>, <<"1", "2">>}

Statuses == {"removed", "modified", "renamed", "added"}

\* Change.patch: None, a text behind the submodule prefix, or a plain text.
Patches ==
    {[present |-> FALSE, text |-> <<>>]}
        \cup {[present |-> TRUE, text |-> SUBMODULE_PATCH_PREFIX \o t] :
                 t \in SeqsUpTo(Tokens, MaxPatch)}
        \cup {[present |-> TRUE, text |-> t] : t \in SeqsUpTo(Tokens, MaxPatch)}

\* str::starts_with / str::ends_with.
starts_with(s, prefix) ==
    Len(s) >= Len(prefix) /\ SubSeq(s, 1, Len(prefix)) = prefix
ends_with(s, suffix) ==
    Len(s) >= Len(suffix)
    /\ SubSeq(s, Len(s) - Len(suffix) + 1, Len(s)) = suffix

\* str::strip_prefix: [some, rest].
strip_prefix(s, prefix) ==
    IF starts_with(s, prefix)
    THEN [some |-> TRUE, rest |-> SubSeq(s, Len(prefix) + 1, Len(s))]
    ELSE [some |-> FALSE, rest |-> <<>>]

\* Faulty variant: the text after the last line break (all of s when it
\* has none).
after_last_line_break(s) ==
    IF \E k \in 1..Len(s) : s[k] = NL
    THEN LET k == CHOOSE i \in 1..Len(s) :
                      s[i] = NL /\ \A j \in (i + 1)..Len(s) : s[j] # NL
         IN  SubSeq(s, k + 1, Len(s))
    ELSE s

\* `s.split_once('\n').unwrap_or(("", "")).0`: the text before the first
\* line break, and the empty text when s has no line break.
before_line_break(s) ==
    IF \E k \in 1..Len(s) : s[k] = NL
    THEN LET k == CHOOSE i \in 1..Len(s) :
                      s[i] = NL /\ \A j \in 1..(i - 1) : s[j] # NL
         IN  SubSeq(s, 1, k - 1)
    ELSE <<>>

\* Change::get_submodule_commit_sha: [some, sha].
get_submodule_commit_sha(sha, patch) ==
    LET possible_sha == strip_prefix(patch, SUBMODULE_PATCH_PREFIX)
    IN  IF possible_sha.some /\ ends_with(patch, sha)
        THEN [some |-> TRUE, sha |-> before_line_break(possible_sha.rest)]
        ELSE [some |-> FALSE, sha |-> <<>>]

\* Faulty variant: an absent patch is handed to the patch utility as an
\* empty one.
reverse_branch_absent_as_empty(status, patch, sha) ==
    IF status = "removed" THEN "removed"
    ELSE IF get_submodule_commit_sha(sha, patch.text).some THEN "submodule"
    ELSE "patch"

\* Faulty variant: the removed status is looked at after the patch.
reverse_branch_removed_last(status, patch, sha) ==
    IF ~patch.present THEN "no_patch"
    ELSE IF get_submodule_commit_sha(sha, patch.text).some THEN "submodule"
    ELSE IF status = "removed" THEN "removed"
    ELSE "patch"

\* change_set.rs:41-58  the branch reverse_apply takes, in source order.
reverse_branch(status, patch, sha) ==
    IF status = "removed" THEN "removed"
    ELSE IF ~patch.present THEN "no_patch"
    ELSE IF get_submodule_commit_sha(sha, patch.text).some THEN "submodule"
    ELSE "patch"

File(text) == [exists |-> TRUE, text |-> text]

\* change_set.rs:29  the paths reverse_apply is called with, as in its
\* tests: src is the New file, dest the Original file.
src_path == "b"
dest_path == "a"

\* What the patch utility may have written to its stderr.
Stderrs == {"", "patch: **** malformed patch at line 4:"}

\* change_set.rs:73  the context of the error of a failed spawn (the
\* source puts the word patch in back quotes, which a string here cannot
\* hold).
SpawnError == "Failed to spawn patch, is it installed?"

\* change_set.rs:96-102  format!("Failed to patch {:?} to {:?}: {}", src,
\* dest, stderr); {:?} of a path puts it in double quotes.
PatchApplyError(src, dest, stderr) ==
    "Failed to patch \"" \o src \o "\" to \"" \o dest \o "\": " \o stderr

\* change_set.rs:92-103  the result of a patch utility that ran.
patch_result(how, stderr) ==
    IF how = "exit_zero"
    THEN Ok
    ELSE Err(PatchApplyError(src_path, dest_path, stderr))

\* Faulty variant: the patch is sent as it is.
patch_stdin_as_is(patch) == patch

\* change_set.rs:75-81  the text written to the stdin of the patch utility:
\* the patch with a line break pushed at its end.
patch_stdin(patch) == patch \o <<NL>>

\* Change::reverse_apply(src, dest) on a working file system: the set of
\* outcomes [branch, result, src, dest, patch_run, stdin, how, stderr].
\* The external `patch -R src -o dest` may fail to start, exit non-zero or
\* exit zero; what it writes to dest and to its stderr is its own business.
reverse_apply(status, patch, sha, src, dest) ==
    LET branch == reverse_branch(status, patch, sha)
        quiet == [branch |-> branch, result |-> Ok, src |-> src,
                  dest |-> dest, patch_run |-> FALSE, stdin |-> <<>>,
                  how |-> "none", stderr |-> ""]
    IN  CASE branch = "removed" ->
                {[quiet EXCEPT !.dest = File(src.text), !.src = File(<<>>)]}
          [] branch = "no_patch" ->
                {[quiet EXCEPT !.dest = File(src.text)]}
          [] branch = "submodule" ->
                {[quiet EXCEPT
                    !.dest = File(get_submodule_commit_sha(sha,
                                                           patch.text).sha)]}
          [] OTHER ->
                {[quiet EXCEPT !.how = "spawn_failed",
                               !.result = Err(SpawnError)]}
                \cup {[quiet EXCEPT !.how = h, !.stderr = e,
                                    !.result = patch_result(h, e),
                                    !.dest = d,
                                    !.patch_run = TRUE,
                                    !.stdin = patch_stdin(patch.text)] :
                         h \in {"exit_zero", "exit_nonzero"},
                         e \in Stderrs,
                         d \in {dest} \cup {File(t) : t \in SeqsUpTo(Tokens, 1)}}

\* A change of any status, patch and sha, whose fetched content has been
\* written to the New file (diff.rs:60-71); the Original file is not there.
ReverseInit ==
    /\ pc = "reverse"
    /\ \E status \in Statuses, patch \in Patches, sha \in Shas,
          fetched \in Texts :
          rev = [NoRev EXCEPT !.status = status, !.patch = patch,
                              !.sha = sha, !.fetched = fetched,
                              !.src = File(fetched)]
    /\ change_set = <<>>
    /\ cli = [pr |-> "absent", files |-> <<>>, skip_to |-> None,
              name_only |-> FALSE, rotate_to |-> None]
    /\ stdout = <<>>
    /\ difftool = FALSE
    /\ temp_dir = "none"
    /\ stream = <<>>
    /\ yielded = {}
    /\ diffs = <<>>
    /\ done = TRUE
    /\ diff_future = NoFuture
    /\ running = {}
    /\ last_exit = [item |-> 0, code |-> 0]
    /\ enqueued = <<>>
    /\ launched = <<>>
    /\ outcome = <<>>
    /\ reported = {}
    /\ diff_ret = "none"
    /\ main_ret = Running
    /\ staged = {}
    /\ op = NoOp
    /\ stage = NoStage
    /\ cmd = NoCmd

\* change_set.rs:29-105  one call of reverse_apply(src, dest).
ReverseApply ==
    /\ pc = "reverse"
    /\ ~rev.called
    /\ \E o \in reverse_apply(rev.status, rev.patch, rev.sha, rev.src,
                               rev.dest) :
          rev' = [rev EXCEPT !.called = TRUE, !.branch = o.branch,
                             !.result = o.result, !.src = o.src,
                             !.dest = o.dest, !.patch_run = o.patch_run,
                             !.stdin = o.stdin, !.how = o.how,
                             !.stderr = o.stderr]
    /\ UNCHANGED <<pc, cli, change_set, stdout, difftool, temp_dir, diff_ret,
                   main_ret, staged, op, stage, cmd>>
    /\ UNCHANGED pipeline_vars

ReverseNext == ReverseApply

ReverseSpec == ReverseInit /\ [][ReverseNext]_vars

(* ------------------------ staging on its own --------------------------- *)

\* Relative file names are sequences of path components.  The names a PR
\* may give: a plain one, one that starts with the prefix of the Original
\* files, and one in a directory.
ChangeNames == {<<"x">>, <<"base_x">>, <<"d", "x">>}

\* The absent Option<String> of Change.previous_filename.
NoName == <<>>

\* change_set.rs:16-27  the fields of a Change the staging reads.
StagedChanges ==
    [filename : ChangeNames, previous_filename : ChangeNames \cup {NoName}]

\* The change lists of a PR: every file name is listed once.
StagedChangeSets ==
    {cs \in SeqsUpTo(StagedChanges, MaxStaged) :
        \A i, j \in 1..Len(cs) :
            cs[i].filename = cs[j].filename => i = j}

\* Path::join of a directory and a relative name.
join(dir, name) == dir \o name

\* Path::parent: the path without its last component.
parent(path) == SubSeq(path, 1, Len(path) - 1)

\* fs::create_dir_all(d): d and every missing ancestor.
create_dir_all(dirs, d) == dirs \cup {SubSeq(d, 1, k) : k \in 1..Len(d)}

\* Faulty variant: the Original file is always named after filename.
old_file_name_current(change) == change.filename

\* diff.rs:75-78  previous_filename.as_ref().unwrap_or(&change.filename)
old_file_name(change) ==
    IF change.previous_filename # NoName
    THEN change.previous_filename
    ELSE change.filename

\* diff.rs:79  format!("{}_{}", "base", old_file_name) read as a path: the
\* text "base_" lands in front of the first component.
base_name(name) == <<"base_" \o Head(name)>> \o Tail(name)

\* diff.rs:61-62  the path of the New file.
new_file(dir, change) == join(dir, change.filename)

\* diff.rs:74-79  the path of the Original file.
temp_original(dir, change) == join(dir, base_name(old_file_name(change)))

\* diff.rs:50-87  Diff::difftool(change) on the directories and files of
\* the temp root: [pair, dirs, files] for a preparation that ends with r.
\* The fetch fails after the directory of the New file was made; the
\* reversal fails after the directory of the Original file was made.
stage_change(dir, dirs, files, change, r) ==
    LET new == new_file(dir, change)
        original == temp_original(dir, change)
        dirs_new == create_dir_all(dirs, parent(new))
        dirs_both == create_dir_all(dirs_new, parent(original))
    IN  CASE r = "err_fetch" ->
                [pair |-> [ok |-> FALSE, original |-> <<>>, new |-> <<>>],
                 dirs |-> dirs_new, files |-> files]
          [] r = "err_reverse" ->
                [pair |-> [ok |-> FALSE, original |-> <<>>, new |-> <<>>],
                 dirs |-> dirs_both, files |-> files \cup {new}]
          [] OTHER ->
                [pair |-> [ok |-> TRUE, original |-> original, new |-> new],
                 dirs |-> dirs_both, files |-> files \cup {new, original}]

\* A change list of a PR and the empty temp root.
StagingInit ==
    /\ pc = "staging"
    /\ \E cs \in StagedChangeSets :
          stage = [NoStage EXCEPT !.changes = cs,
                                  !.dirs = {<<temp_dir_path>>}]
    /\ change_set = <<>>
    /\ cli = [pr |-> "absent", files |-> <<>>, skip_to |-> None,
              name_only |-> FALSE, rotate_to |-> None]
    /\ stdout = <<>>
    /\ difftool = FALSE
    /\ temp_dir = "none"
    /\ stream = <<>>
    /\ yielded = {}
    /\ diffs = <<>>
    /\ done = TRUE
    /\ diff_future = NoFuture
    /\ running = {}
    /\ last_exit = [item |-> 0, code |-> 0]
    /\ enqueued = <<>>
    /\ launched = <<>>
    /\ outcome = <<>>
    /\ reported = {}
    /\ diff_ret = "none"
    /\ main_ret = Running
    /\ staged = {}
    /\ op = NoOp
    /\ rev = NoRev
    /\ cmd = NoCmd

\* diff.rs:50-58  the preparation of the next change of the list.
StageChange ==
    /\ pc = "staging"
    /\ Len(stage.pairs) < Len(stage.changes)
    /\ \E r \in {"ok", "err_fetch", "err_reverse"} :
          LET o == stage_change(<<temp_dir_path>>, stage.dirs, stage.files,
                                stage.changes[Len(stage.pairs) + 1], r)
          IN  stage' = [stage EXCEPT !.pairs = Append(stage.pairs, o.pair),
                                     !.dirs = o.dirs, !.files = o.files]
    /\ UNCHANGED <<pc, cli, change_set, stdout, difftool, temp_dir, diff_ret,
                   main_ret, staged, op, rev, cmd>>
    /\ UNCHANGED pipeline_vars

StagingNext == StageChange

StagingSpec == StagingInit /\ [][StagingNext]_vars

(* ------------------- Difftool::launch on its own ------------------------ *)

\* The arguments a command template may hold: the two placeholders, a plain
\* option and an argument that only contains a placeholder.
TemplateArgs == {"$LOCAL", "$REMOTE", "--wait", "--left=$LOCAL"}

\* git_config.rs:53-58  command_args: the program and its template.
CommandArgs == {<<"tool">> \o t : t \in SeqsUpTo(TemplateArgs, MaxArgs)}

\* The staged pairs a launch may be given: [original, new].
LaunchPairs ==
    {[original |-> "gh-difftool/base_x", new |-> "gh-difftool/x"],
     [original |-> "gh-difftool/base_d/x", new |-> "gh-difftool/y"]}

\* diff.rs:50-58, 31-41  Difftool::new(&self.difftool, original, new) and
\* launch(): the Original is `local`, the New is `remote`.
launch_paths(original, new) == [local |-> original, remote |-> new]

\* Faulty variant: the template is passed as it is (Command is no shell).
command_arg_unexpanded(arg, local, remote) == arg

\* git_config.rs:71-83  one argument of the template.
command_arg(arg, local, remote) ==
    CASE arg = "$LOCAL" -> local
      [] arg = "$REMOTE" -> remote
      [] OTHER -> arg

\* git_config.rs:62-83  the command launch() builds from command_args.
command(command_args, local, remote) ==
    [program |-> Head(command_args),
     args |-> [k \in 1..(Len(command_args) - 1) |->
                  command_arg(command_args[k + 1], local, remote)],
     env_LOCAL |-> local,
     env_REMOTE |-> remote]

\* A resolved diff tool and a staged pair.
LaunchInit ==
    /\ pc = "launch"
    /\ \E command_args \in CommandArgs, pair \in LaunchPairs :
          cmd = [NoCmd EXCEPT !.command_args = command_args,
                              !.original = pair.original, !.new = pair.new]
    /\ change_set = <<>>
    /\ cli = [pr |-> "absent", files |-> <<>>, skip_to |-> None,
              name_only |-> FALSE, rotate_to |-> None]
    /\ stdout = <<>>
    /\ difftool = FALSE
    /\ temp_dir = "none"
    /\ stream = <<>>
    /\ yielded = {}
    /\ diffs = <<>>
    /\ done = TRUE
    /\ diff_future = NoFuture
    /\ running = {}
    /\ last_exit = [item |-> 0, code |-> 0]
    /\ enqueued = <<>>
    /\ launched = <<>>
    /\ outcome = <<>>
    /\ reported = {}
    /\ diff_ret = "none"
    /\ main_ret = Running
    /\ staged = {}
    /\ op = NoOp
    /\ rev = NoRev
    /\ stage = NoStage

launch_unchanged ==
    UNCHANGED <<pc, cli, change_set, stdout, difftool, temp_dir, diff_ret,
                main_ret, staged, op, rev, stage>>

\* git_config.rs:61-87  launch() up to `command.spawn()?`: the command is
\* built and the tool starts, or the spawn error is returned.
LaunchSpawn ==
    /\ pc = "launch"
    /\ ~cmd.called
    /\ LET paths == launch_paths(cmd.original, cmd.new)
           c == command(cmd.command_args, paths.local, paths.remote)
       IN  \E spawned \in BOOLEAN :
              cmd' = [cmd EXCEPT
                        !.called = TRUE,
                        !.program = c.program,
                        !.args = c.args,
                        !.env_LOCAL = c.env_LOCAL,
                        !.env_REMOTE = c.env_REMOTE,
                        !.how = IF spawned THEN "running"
                                ELSE "spawn_failed",
                        !.result = IF spawned THEN Running
                                   ELSE Err(launch_result(FALSE, FALSE, 0))]
    /\ launch_unchanged
    /\ UNCHANGED pipeline_vars

\* git_config.rs:88-92  `child.wait().await?` completes: the tool has
\* exited with some status, or the wait failed.
LaunchWait ==
    /\ pc = "launch"
    /\ cmd.how = "running"
    /\ \E waited \in BOOLEAN, status \in ExitCodes :
          LET r == launch_result(TRUE, waited, status)
          IN  cmd' = [cmd EXCEPT
                        !.how = IF waited THEN "exited" ELSE "wait_failed",
                        !.result = IF r = "ok" THEN Ok ELSE Err(r)]
    /\ launch_unchanged
    /\ UNCHANGED pipeline_vars

LaunchNext ==
    \/ LaunchSpawn
    \/ LaunchWait

LaunchSpec == LaunchInit /\ [][LaunchNext]_vars

LiveSpec ==
    /\ Spec
    /\ WF_vars(StreamBranch)
    /\ WF_vars(PollSpawn)
    /\ WF_vars(ViewerBranch)
    /\ WF_vars(Break)
    /\ \A p \in Positions : WF_vars(PrepComplete(p))
    /\ \A p \in Positions : WF_vars(ViewerExit(p))

(* ------------------------------ claims -------------------------------- *)

\* Number of changes handed to diff().
N == Len(stream)

\* C1: the staged pairs are pushed on the viewer queue in ChangeSet order:
\* the k-th pair enqueued is the pair of position k, and what waits in the
\* queue is the tail of what was enqueued; a preparation that finished
\* early is not enqueued before its predecessors.
C1_EnqueuedInChangeSetOrder ==
    /\ \A k \in 1..Len(enqueued) : enqueued[k] = k
    /\ \A k \in 1..Len(diffs) :
          diffs[k] = enqueued[Len(enqueued) - Len(diffs) + k]

\* C1 witness: position 3 completed while position 2 is still being
\* prepared, position 1 is enqueued and 3 is kept back.
C1_Witness ==
    /\ pc = "diff_loop"
    /\ N >= 3
    /\ stream[3] = "ok"
    /\ stream[2] = "pending"
    /\ enqueued = <<1>>
    /\ stream_next = {}

\* C2: at most one viewer process runs at any time, and a step that
\* starts a viewer process is taken only when none is running.
C2_SingleViewer ==
    /\ [](Cardinality(running) <= 1)
    /\ [][(running' \ running # {}) => running = {}]_vars

\* C2 witness: a viewer is up while the next staged pair waits in the queue.
C2_Witness ==
    /\ pc = "diff_loop"
    /\ running # {}
    /\ diffs # <<>>
    /\ diff_future.phase = "spawned"

\* C3: viewers are launched in ChangeSet order, and every viewer launched
\* before the latest one is no longer running.
C3_LaunchedInChangeSetOrder ==
    \A k \in 1..(Len(launched) - 1) :
        /\ launched[k] < launched[k + 1]
        /\ launched[k] \notin running

\* C3 witness: the second viewer runs after the first has exited, with a
\* third pair prepared and waiting.
C3_Witness ==
    /\ Len(launched) = 2
    /\ running = {launched[2]}
    /\ outcome = <<"exited">>
    /\ diffs = <<3>>


\* Position p has been pushed on the viewer queue / has had its launch
\* started.
Enqueued(p) == \E k \in 1..Len(enqueued) : enqueued[k] = p
Launched(p) == \E k \in 1..Len(launched) : launched[k] = p

\* diff() has left its scheduling loop (by `break` or by a `?`).
LeftLoop == pc \in {"diff_returned", "exit"} /\ temp_dir = "removed"

\* C4: a failing preparation aborts nothing else: once diff() is over,
\* every change whose preparation did not fail has been enqueued and
\* launched.
C4_PrepFailureIsolated ==
    LeftLoop =>
        \A p \in DOMAIN stream :
            stream[p] # "err" => Enqueued(p) /\ Launched(p)

\* C5: a failing launch is printed and the loop goes on with the head of
\* the queue; diff() never returns the launch error; and when diff()
\* returns Ok every change has had its launch started, in ChangeSet order,
\* whether or not earlier launches failed.
C5_LaunchFailureIsolated ==
    /\ [][(reported' # reported) =>
             /\ pc' = "diff_loop"
             /\ diffs # <<>> =>
                   /\ diff_future' = [arg |-> Head(diffs), phase |-> "created"]
                   /\ diffs' = Tail(diffs)]_vars
    /\ [](diff_ret # "err_launch")
    /\ []((LeftLoop /\ diff_ret = "ok") =>
             /\ Len(launched) = N
             /\ \A k \in 1..N : launched[k] = k)

\* C5 witness: the launch of the first pair failed and was printed, the
\* second was launched and shown afterwards, and diff() returned Ok.
C5_Witness ==
    /\ pc = "diff_returned"
    /\ diff_ret = "ok"
    /\ N >= 2
    /\ 1 \in reported
    /\ outcome[1] \in {"spawn_failed", "wait_failed"}
    /\ outcome[2] = "exited"

\* C6: a viewer that was spawned and waited for is never reported as an
\* error, whatever status it exited with: only failed spawns and failed
\* waits are; the step that consumes an exited viewer goes on with the
\* head of the queue (or idles) without looking at the status.
C6_ExitStatusIgnored ==
    /\ [](\A k \in 1..Len(outcome) :
             outcome[k] = "exited" <=> launched[k] \notin reported)
    /\ [](diff_ret # "err_launch")
    /\ [][(Len(outcome') > Len(outcome)
            /\ outcome'[Len(outcome')] = "exited") =>
             /\ reported' = reported
             /\ pc' = "diff_loop"
             /\ IF diffs = <<>>
                THEN done' /\ diff_future' = [arg |-> 0, phase |-> "created"]
                ELSE /\ ~done'
                     /\ diff_future' = [arg |-> Head(diffs),
                                        phase |-> "created"]
                     /\ diffs' = Tail(diffs)]_vars

\* C6 witness: the viewer consumed last exited with a non-zero status and
\* the loop took it as a success and went on to the next pair.
C6_Witness ==
    /\ pc = "diff_loop"
    /\ outcome # <<>>
    /\ outcome[Len(outcome)] = "exited"
    /\ last_exit = [item |-> launched[Len(outcome)], code |-> 1]
    /\ reported = {}
    /\ diff_future.arg # 0
    /\ diff_future.arg # last_exit.item

\* C7: diff() leaves its loop only when the stream has yielded every
\* result, the viewer queue is empty and no viewer is active.
C7_LoopExitClean ==
    LeftLoop =>
        /\ stream_exhausted
        /\ diffs = <<>>
        /\ diff_future.arg = 0
        /\ running = {}

\* A preparation has failed.
PrepFailed == \E p \in DOMAIN stream : stream[p] = "err"

\* diff() returned Ok having started the launch of every change exactly
\* once, in order; and when no launch failed every change was shown.
AllShownOnce ==
    /\ LeftLoop
    /\ diff_ret = "ok"
    /\ running = {}
    /\ Len(launched) = N
    /\ \A k \in 1..N : launched[k] = k
    /\ reported = {} => outcome = [k \in 1..N |-> "exited"]

C9_PreparationOverlapsViewer ==
    /\ (pc = "diff_loop" /\ running # {} /\ stream_next # {}) =>
          ENABLED StreamBranch
    /\ (pc = "diff_loop" /\ running # {}
           /\ \E p \in stream_next : stream[p] = "ok") =>
          ENABLED (/\ StreamBranch
                   /\ Len(diffs') = Len(diffs) + 1
                   /\ diffs'[Len(diffs')] \in stream_next
                   /\ running' = running)

\* C9 witness: a viewer is running, the next result is ready and it is a
\* success, so the next step can push it on the queue behind the viewer.
C9_Witness ==
    /\ pc = "diff_loop"
    /\ running # {}
    /\ diff_future.phase = "spawned"
    /\ \E p \in stream_next : stream[p] = "ok"

\* C10: main() returns an error only for a failure before the pipeline:
\* the command line, the PR, the provider's change list, the skip-to file
\* name, the diff tool or the temp root; never for a failed preparation or
\* launch.
C10_ErrorOnlyOnPrecondition ==
    main_ret.ret = "err" =>
        main_ret.cause \in {"pr", "usage", "provider", "difftool",
                            "err_tempdir"}
                               \cup {NoSuchPath(f) : f \in CliNames}

\* C11: the temp root exists exactly while diff() is in its loop: it is
\* created once, when diff() starts, every staged file lies under it, and
\* it goes away (with the files) in the very step in which diff() returns,
\* by `break` or by an error, and in no other step.
C11_TempRootLifetime ==
    /\ [](temp_dir = "exists" <=> pc = "diff_loop")
    /\ [](\A f \in staged : f.root = temp_dir_path /\ temp_dir = "exists")
    /\ []((pc \in {"diff_returned", "exit"}
             /\ diff_ret \in {"ok", "err_prep"}) =>
            temp_dir = "removed")
    /\ [][temp_dir' # temp_dir =>
             \/ /\ temp_dir = "none"
                /\ temp_dir' = "exists"
                /\ pc = "diff_start"
             \/ /\ temp_dir = "exists"
                /\ temp_dir' = "removed"
                /\ pc = "diff_loop"
                /\ pc' = "diff_returned"]_vars

\* C11 witness: diff() has returned an error after staging the files of a
\* change, and the temp root with the files is gone.
C11_Witness ==
    /\ pc = "diff_returned"
    /\ diff_ret = "err_prep"
    /\ enqueued # <<>>
    /\ temp_dir = "removed"
    /\ staged = {}


(* ------------------- claims about the ChangeSet operations ------------- *)

\* Number of records of changes named f.
Count(changes, f) == Cardinality({k \in 1..Len(changes) : changes[k] = f})

\* The 1-based index of the first record of changes named f.
FirstMatch(changes, f) ==
    CHOOSE k \in 1..Len(changes) :
        changes[k] = f /\ \A j \in 1..(k - 1) : changes[j] # f

\* The indices of changes whose record is named by a member of files.
Requested(changes, files) ==
    {k \in 1..Len(changes) : \E j \in 1..Len(files) : files[j] = changes[k]}

\* C12: filter_files(C, F) never fails and leaves exactly the records of C
\* whose filename is in F, in the relative order they had in C; names of F
\* absent from C change nothing.
C12_FilterKeepsRequestedInOrder ==
    op.name = "filter_files" =>
        LET kept == Requested(op.before, op.files)
        IN  /\ op.ok
            /\ op.error = ""
            /\ Len(change_set) = Cardinality(kept)
            /\ \A k \in kept :
                   change_set[Cardinality({j \in kept : j <= k})]
                       = op.before[k]

\* A filter that names an absent file, keeps two records and drops one.
C12_Witness ==
    /\ op.name = "filter_files"
    /\ Contains(op.files, "x")
    /\ Len(change_set) = 2
    /\ Len(op.before) > Len(change_set)
    /\ op.ok

\* C13: when C has a record named n, rotate_to(C, n) succeeds with the
\* cyclic left rotation of C that puts the first record named n first, then
\* its successors, then its predecessors; length and multiset of records
\* are unchanged and rotating to the first record changes nothing.
C13_RotateToIsCyclicLeftRotation ==
    (op.name = "rotate_to" /\ Contains(op.before, op.file)) =>
        LET n == Len(op.before)
            k == FirstMatch(op.before, op.file)
        IN  /\ op.ok
            /\ Len(change_set) = n
            /\ change_set[1] = op.file
            /\ \A i \in 1..n :
                   change_set[i] = op.before[((k - 1 + i - 1) % n) + 1]
            /\ \A f \in Filenames :
                   Count(change_set, f) = Count(op.before, f)
            /\ (op.before[1] = op.file => change_set = op.before)

\* A rotation to the third of four records, one name occurring twice.
C13_Witness ==
    /\ op.name = "rotate_to"
    /\ op.ok
    /\ Len(op.before) = 4
    /\ FirstMatch(op.before, op.file) = 3
    /\ change_set # op.before
    /\ \E f \in Filenames : Count(op.before, f) = 2

\* C14: when C has a record named n, skip_to(C, n) succeeds with the suffix
\* of C that starts at the first record named n.
C14_SkipToIsSuffixFromFirstMatch ==
    (op.name = "skip_to" /\ Contains(op.before, op.file)) =>
        LET n == Len(op.before)
            k == FirstMatch(op.before, op.file)
        IN  /\ op.ok
            /\ Len(change_set) = n - k + 1
            /\ \A i \in 1..(n - k + 1) : change_set[i] = op.before[k - 1 + i]

\* A skip to a name that occurs twice, with a record before the first match.
C14_Witness ==
    /\ op.name = "skip_to"
    /\ op.ok
    /\ Count(op.before, op.file) = 2
    /\ FirstMatch(op.before, op.file) = 2
    /\ Len(change_set) = 3

\* C15: skip_to(n) applied to the result of a successful skip_to(n)
\* succeeds and changes nothing.
C15_SkipToIdempotent ==
    (op.name = "skip_to" /\ op.again) =>
        /\ op.ok
        /\ change_set = op.before

\* The second of two successive skip_to to the same file, on two or more
\* records.
C15_Witness ==
    /\ op.name = "skip_to"
    /\ op.again
    /\ op.ok
    /\ Len(change_set) >= 2
    /\ change_set[1] = op.file

\* C16: when no record of C is named n, rotate_to(C, n) and skip_to(C, n)
\* fail with the error "No such path '<n>' in the diff." and C is unchanged.
C16_AbsentNameFailsUnchanged ==
    (op.name \in {"rotate_to", "skip_to"} /\ ~Contains(op.before, op.file)) =>
        /\ ~op.ok
        /\ op.error = "No such path '" \o op.file \o "' in the diff."
        /\ change_set = op.before

\* A failed rotation of a change list of two or more records.
C16_Witness ==
    /\ op.name = "rotate_to"
    /\ ~op.ok
    /\ op.error = "No such path 'x' in the diff."
    /\ Len(change_set) >= 2


(* ------------------------- claims about main ---------------------------- *)

\* Nothing of the run's work has happened: no filename printed, no diff
\* tool resolved, no temp root, no preparation dispatched, no viewer.
NoWorkDone ==
    /\ stdout = <<>>
    /\ ~difftool
    /\ temp_dir = "none"
    /\ staged = {}
    /\ stream = <<>>
    /\ enqueued = <<>>
    /\ launched = <<>>
    /\ running = {}

\* The errors of main that do not come from the ordering selection.
OtherCauses == {"pr", "provider", "difftool", "err_tempdir", "err_prep"}

\* C17: a skip-to/rotate-to filename absent from the filtered ChangeSet
\* aborts the run with the error naming that filename, before any work:
\* the step that checks an absent skip-to name ends the run with that
\* error, and every run that the ordering selection aborts ends with the
\* "No such path" error of a filename absent from the ChangeSet, with
\* nothing printed, resolved, created, dispatched or launched.
C17_OrderingFailureIsPrecondition ==
    /\ [][(pc = "main_skip_to" /\ cli.skip_to # None
             /\ ~Contains(change_set, cli.skip_to)) =>
            (pc' = "exit" /\ main_ret' = Err(NoSuchPath(cli.skip_to)))]_vars
    /\ []((main_ret.ret = "err" /\ main_ret.cause \notin OtherCauses) =>
            /\ \E n \in CliNames :
                  /\ main_ret.cause = "No such path '" \o n \o "' in the diff."
                  /\ ~Contains(change_set, n)
            /\ pc = "exit"
            /\ NoWorkDone)

\* main returned Ok from the name-only branch (diff() was never called).
NameOnlyExit == pc = "exit" /\ main_ret = Ok /\ diff_ret = "none"

C19_RotateToListsRotated ==
    (pc = "exit" /\ cli.rotate_to # None /\ cli.name_only
       /\ main_ret.cause \notin {"pr", "provider"}) =>
        \/ main_ret.cause \in {NoSuchPath(f) : f \in CliNames}
        \/ /\ main_ret = Ok
           /\ stdout = change_set
           /\ stdout # <<>>
           /\ stdout[1] = cli.rotate_to


(* --------------------- claims about reverse_apply ----------------------- *)

\* C20: for a change with status removed, whatever its patch, reverse_apply
\* succeeds with the Original file a copy of the fetched content and the
\* New file empty, and the external patch utility is not run.
C20_RemovedTakesPrecedence ==
    (rev.called /\ rev.status = "removed") =>
        /\ rev.result = Ok
        /\ rev.dest = [exists |-> TRUE, text |-> rev.fetched]
        /\ rev.src = [exists |-> TRUE, text |-> <<>>]
        /\ ~rev.patch_run
        /\ rev.stdin = <<>>

\* A removed change with fetched content and a patch of the submodule shape
\* ending in its sha.
C20_Witness ==
    /\ rev.called
    /\ rev.status = "removed"
    /\ rev.fetched # <<>>
    /\ rev.patch.present
    /\ starts_with(rev.patch.text, SUBMODULE_PATCH_PREFIX)
    /\ ends_with(rev.patch.text, rev.sha)
    /\ rev.dest.text = rev.fetched

\* C21: for a change that is not removed and has no patch, reverse_apply
\* succeeds with the Original file a copy of the fetched content and the
\* New file as it was, so both hold the same text; the patch utility is
\* not run.
C21_NoPatchCopies ==
    (rev.called /\ rev.status # "removed" /\ ~rev.patch.present) =>
        /\ rev.result = Ok
        /\ rev.dest = [exists |-> TRUE, text |-> rev.fetched]
        /\ rev.src = [exists |-> TRUE, text |-> rev.fetched]
        /\ rev.dest = rev.src
        /\ ~rev.patch_run

\* A renamed change without a patch, with fetched content.
C21_Witness ==
    /\ rev.called
    /\ rev.status = "renamed"
    /\ ~rev.patch.present
    /\ rev.fetched # <<>>
    /\ rev.dest.text = rev.fetched

\* The patch has the submodule shape for the change: it starts with the
\* marker prefix and ends with the content identifier.
MarkerShaped ==
    /\ rev.patch.present
    /\ starts_with(rev.patch.text, SUBMODULE_PATCH_PREFIX)
    /\ ends_with(rev.patch.text, rev.sha)

\* The text of the patch behind the marker prefix.
Remainder ==
    SubSeq(rev.patch.text, Len(SUBMODULE_PATCH_PREFIX) + 1,
           Len(rev.patch.text))

HasLineBreak(s) == \E k \in 1..Len(s) : s[k] = NL

\* The text of s in front of its first line break.
FirstLine(s) ==
    LET k == CHOOSE i \in 1..Len(s) :
                 s[i] = NL /\ \A j \in 1..(i - 1) : s[j] # NL
    IN  SubSeq(s, 1, k - 1)

\* C22 as stated: for a marker-shaped patch whose trailing token is the
\* content identifier, the Original is exactly that trailing token (the
\* content identifier), with no line terminator.
C22_SubmoduleReturnsTrailingToken ==
    (rev.called /\ rev.status # "removed" /\ MarkerShaped) =>
        /\ rev.result = Ok
        /\ rev.dest = [exists |-> TRUE, text |-> rev.sha]
        /\ ~HasLineBreak(rev.dest.text)

\* C22 amended: for a marker-shaped patch whose trailing token is the
\* content identifier and whose marker line is ended by a line break, the
\* Original is exactly the token between the marker prefix and that line
\* break (the prior commit id, not the trailing one), with no line
\* terminator, and the patch utility is not run.
C22_SubmoduleReturnsPriorToken ==
    (rev.called /\ rev.status # "removed" /\ MarkerShaped
       /\ HasLineBreak(Remainder)) =>
        /\ rev.result = Ok
        /\ rev.dest = [exists |-> TRUE, text |-> FirstLine(Remainder)]
        /\ ~HasLineBreak(rev.dest.text)
        /\ ~rev.patch_run

\* A submodule patch "<prefix>1\n2" of a change with sha "2": the Original
\* is the prior id "1".
C22_Witness ==
    /\ rev.called
    /\ rev.status = "modified"
    /\ MarkerShaped
    /\ Remainder = <<"1", NL, "2">>
    /\ rev.sha = <<"2">>
    /\ rev.dest.text = <<"1">>

\* C23: for a change that is not removed and has a patch: when the patch is
\* marker-shaped the Original is the text behind the marker prefix up to
\* the next line break, the whole remainder when there is none, and the
\* patch utility is not run; otherwise the general path is taken.
C23_SubmoduleBranch ==
    (rev.called /\ rev.status # "removed" /\ rev.patch.present) =>
        /\ MarkerShaped =>
              /\ rev.result = Ok
              /\ rev.dest.exists
              /\ rev.dest.text = IF HasLineBreak(Remainder)
                                 THEN FirstLine(Remainder)
                                 ELSE Remainder
              /\ ~rev.patch_run
        /\ ~MarkerShaped => rev.branch = "patch"

\* C24: in the general case the outcome follows the patch utility alone:
\* a utility that cannot be started gives the spawn error, exit status zero
\* gives success, a non-zero exit gives the error that carries the source
\* path, the destination path and the utility's stderr; whenever the
\* utility runs it is sent the patch followed by exactly one line break.
C24_GeneralCaseFollowsUtility ==
    (rev.called /\ rev.branch = "patch") =>
        /\ rev.how \in {"spawn_failed", "exit_zero", "exit_nonzero"}
        /\ rev.how = "spawn_failed" =>
              /\ rev.result.ret = "err"
              /\ rev.result.cause = "Failed to spawn patch, is it installed?"
              /\ ~rev.patch_run
        /\ rev.how = "exit_zero" => rev.result = Ok
        /\ rev.how = "exit_nonzero" =>
              /\ rev.result.ret = "err"
              /\ rev.result.cause =
                     "Failed to patch \"b\" to \"a\": " \o rev.stderr
        /\ rev.how # "spawn_failed" =>
              /\ rev.patch_run
              /\ Len(rev.stdin) = Len(rev.patch.text) + 1
              /\ SubSeq(rev.stdin, 1, Len(rev.patch.text)) = rev.patch.text
              /\ rev.stdin[Len(rev.stdin)] = NL

\* A patch that already ends in a line break, rejected by the utility with
\* a message on stderr.
C24_Witness ==
    /\ rev.called
    /\ rev.branch = "patch"
    /\ rev.how = "exit_nonzero"
    /\ rev.stderr # ""
    /\ rev.result.ret = "err"
    /\ rev.patch.text = <<"1", NL>>
    /\ rev.stdin = <<"1", NL, NL>>

(* ------------------------ claims about staging -------------------------- *)

\* The positions of the change list whose preparation succeeded.
StagedOk == {i \in 1..Len(stage.pairs) : stage.pairs[i].ok}

\* Every directory above path exists.
ParentsExist(path) ==
    \A k \in 1..(Len(path) - 1) : SubSeq(path, 1, k) \in stage.dirs

\* C26: the New file of a change is staged at <temp root>/<filename>, the
\* Original file at <temp root>/base_<previous_filename> when there is a
\* previous_filename and at <temp root>/base_<filename> otherwise; both
\* files are there and so are all their parent directories.
C26_StagedPaths ==
    \A i \in StagedOk :
        LET change == stage.changes[i]
            pair == stage.pairs[i]
            name == IF change.previous_filename # NoName
                    THEN change.previous_filename
                    ELSE change.filename
        IN  /\ pair.new = <<"gh-difftool">> \o change.filename
            /\ Len(pair.original) = Len(name) + 1
            /\ pair.original[1] = "gh-difftool"
            /\ pair.original[2] = "base_" \o name[1]
            /\ \A k \in 2..Len(name) : pair.original[k + 1] = name[k]
            /\ pair.new \in stage.files
            /\ pair.original \in stage.files
            /\ ParentsExist(pair.new)
            /\ ParentsExist(pair.original)

\* A change renamed out of a directory into another name: the Original is
\* named after the previous name and its directory was made for it.
C26_Witness ==
    /\ 1 \in StagedOk
    /\ stage.changes[1].filename = <<"x">>
    /\ stage.changes[1].previous_filename = <<"d", "x">>
    /\ stage.pairs[1].original = <<"gh-difftool", "base_d", "x">>
    /\ <<"gh-difftool", "base_d">> \in stage.dirs

\* C27: no staged path is shared: the Original path of a change differs
\* from its New path, and the paths of two different changes are pairwise
\* different.
C27_StagedPathsDisjoint ==
    /\ \A i \in StagedOk : stage.pairs[i].original # stage.pairs[i].new
    /\ \A i, j \in StagedOk :
          i # j =>
              {stage.pairs[i].original, stage.pairs[i].new}
                  \cap {stage.pairs[j].original, stage.pairs[j].new} = {}

(* ------------------------ claims about the launch ----------------------- *)

\* The template of the command: command_args without the program.
Template == Tail(cmd.command_args)

\* C28: the launched command has, argument by argument in order, the staged
\* Original path where the template has $LOCAL, the staged New path where
\* it has $REMOTE and the template's argument anywhere else; LOCAL and
\* REMOTE of its environment are the same two paths; and launch() returns
\* Ok only once the tool has exited.
C28_LaunchSubstitutesPaths ==
    cmd.called =>
        /\ cmd.program = cmd.command_args[1]
        /\ Len(cmd.args) = Len(Template)
        /\ \A k \in 1..Len(Template) :
              /\ Template[k] = "$LOCAL" => cmd.args[k] = cmd.original
              /\ Template[k] = "$REMOTE" => cmd.args[k] = cmd.new
              /\ Template[k] \notin {"$LOCAL", "$REMOTE"} =>
                    cmd.args[k] = Template[k]
        /\ cmd.env_LOCAL = cmd.original
        /\ cmd.env_REMOTE = cmd.new
        /\ cmd.how = "running" => cmd.result = Running
        /\ cmd.result = Ok => cmd.how = "exited"

\* A tool launched with both placeholders and an argument that only
\* contains one; it has exited.
C28_Witness ==
    /\ cmd.called
    /\ Template = <<"$REMOTE", "--left=$LOCAL", "$LOCAL">>
    /\ cmd.args = <<cmd.new, "--left=$LOCAL", cmd.original>>
    /\ cmd.how = "exited"
    /\ cmd.result = Ok

(* -------------------- claims about the viewer queue --------------------- *)

\* The launches that have ended, in launch order, that satisfy keep.
EndedWith(keep) ==
    LET F[k \in 0..Len(outcome)] ==
            IF k = 0 THEN <<>>
            ELSE IF outcome[k] \in keep THEN Append(F[k - 1], launched[k])
            ELSE F[k - 1]
    IN  F[Len(outcome)]

\* The change held by the pinned launch future, if any.
ActiveViewer == IF diff_future.arg # 0 THEN <<diff_future.arg>> ELSE <<>>

\* The prefix of the ChangeSet as long as the number of results yielded.
YieldedPrefix == [k \in 1..Cardinality(yielded) |-> k]

NoPreparationFailed == \A p \in yielded : stream[p] = "ok"

\* C29 as stated: in diff(), while no preparation has failed, the changes
\* whose viewer has exited, then the change of the active viewer, then the
\* viewer queue from head to tail, are exactly the prefix of the ChangeSet
\* as long as the number of preparation results yielded.
C29_ExitedActiveQueuedIsPrefix ==
    (pc = "diff_loop" /\ NoPreparationFailed) =>
        EndedWith({"exited", "wait_failed"}) \o ActiveViewer \o diffs
            = YieldedPrefix

\* C29 amended: in diff(), while no preparation has failed, the changes
\* whose launch has ended (the viewer exited, or it could not be started
\* and the error was reported), then the change of the active viewer, then
\* the viewer queue from head to tail, are exactly the prefix of the
\* ChangeSet as long as the number of preparation results yielded.
C29_EndedActiveQueuedIsPrefix ==
    (pc = "diff_loop" /\ NoPreparationFailed) =>
        EndedWith({"exited", "wait_failed", "spawn_failed"})
            \o ActiveViewer \o diffs = YieldedPrefix

\* A viewer that could not be started, one that exited, an active one and
\* a change waiting in the queue.
C29_Witness ==
    /\ pc = "diff_loop"
    /\ NoPreparationFailed
    /\ \E k \in 1..Len(outcome) : outcome[k] = "spawn_failed"
    /\ \E k \in 1..Len(outcome) : outcome[k] = "exited"
    /\ diff_future.arg # 0
    /\ diffs # <<>>

\* C30: the temp root is never removed while a viewer launched on its
\* files is still running: on every path out of diff(), the one taken when
\* a preparation fails included, every launched viewer has exited by the
\* time the temp root is removed.
C30_TempRootOutlivesViewers ==
    temp_dir = "removed" => running = {}

=============================================================================
